---- MODULE Spec2Model ----
(***************************************************************************)
(* Validation and index-assembly pipeline of the F-Droid repository        *)
(* builder: the stateless validation rules, the per-application and global *)
(* validation sessions, the asset selector, the retention selector, the    *)
(* index assembler and the run orchestrator (process_app / main).          *)
(*                                                                         *)
(* Python values are modelled as follows.  A dict is a TLA+ function whose *)
(* DOMAIN is its key set (dict.get(k) looks the key up in the DOMAIN); a   *)
(* dict whose iteration order matters is a sequence of <<key, value>>      *)
(* pairs.  None is the string "None" for optional strings and the empty    *)
(* sequence for optional integers (<<v>> stands for the integer v).        *)
(***************************************************************************)
EXTENDS Integers, Sequences, FiniteSets, TLC

VARIABLES
    call,               \* unit harness: the last call of a function, with its inputs and result
    history,            \* unit harness: the register_package_id calls made so far
    global_validator,   \* GlobalValidator: package_id_map and duplicate_pairs
    pc,                 \* main(): position in the run
    todo,               \* main(): the applications of apps_config not processed yet
    app,                \* process_app(): the frame of the application being processed
    returned,           \* main(): what process_app returned for each application of this run
    cache,              \* main(): the metadata cache held in memory
    reporter,           \* Reporter: entries, failed_apps, warning_apps
    packages_data,      \* main(): package_id -> package object collected in this run
    repo_config,        \* main(): the repo section of apps.yaml
    disk,               \* persisted files: metadata_cache.json, index-v2.json, index-v1.json
    exit_code,          \* main(): the value returned by the last run (<<>> while a run is going)
    runs                \* number of runs of main() started so far

vars == <<call, history, global_validator, pc, todo, app, returned, cache, reporter,
          packages_data, repo_config, disk, exit_code, runs>>

runVars == <<pc, todo, app, returned, cache, reporter, packages_data, repo_config, disk,
             exit_code, runs>>

-----------------------------------------------------------------------------
(* Bounds of the model *)

MaxVersions == 3        \* longest version list handed to apply_retention / build_index_v1
MaxRetain == 3          \* largest retain count tried (the smallest is -1)
MaxAssets == 2          \* most assets attached to one release
MaxSize == 2            \* largest asset byte size
MaxRegisterCalls == 4   \* longest sequence of register_package_id calls in the unit harness
MaxReleases == 2        \* most releases fetch_releases returns for one application
MaxRuns == 2            \* number of consecutive runs of main()
MaxConcurrentCalls == 3  \* register_package_id calls made by the two threads of SpecRace

-----------------------------------------------------------------------------
(* Value domains *)

None == "None"

Policies == {"arm_preferred", "arm64_only"}

Abis == {"arm64-v8a", "armeabi-v7a", "x86", "x86_64"}

PackageIds == {"com.example.app", "org.other.app"}

LogicalIds == {"A", "B"}

Certs == {"certA", "certB"}

Hashes == {"h1", "h2", "h3"}

\* version codes: 0 (falsy in Python), and the codes of the documented scenarios
VersionCodes == {0, 5, 7, 9, 10}

OptVersionCodes == {<<>>} \cup {<<v>> : v \in VersionCodes}

\* ArtifactMetadata as returned by process_apk (the fields the rules read)
Metadata ==
    [package_name : PackageIds \cup {""},
     version_code : VersionCodes,
     native_code : SUBSET Abis,
     signing_cert_sha256 : Certs \cup {None},
     sha256 : Hashes]

Min(a, b) == IF a < b THEN a ELSE b

\* dict.get(key) with default None, on a dict modelled as a function
Get(d, key) == IF key \in DOMAIN d THEN d[key] ELSE None

-----------------------------------------------------------------------------
(* validator.py: the stateless rules *)

Valid == [is_valid |-> TRUE, error_message |-> "", warning_message |-> ""]

ValidWithWarning(w) == [is_valid |-> TRUE, error_message |-> "", warning_message |-> w]

Invalid(e) == [is_valid |-> FALSE, error_message |-> e, warning_message |-> ""]

validate_abi_x86_only(metadata, abi_policy) ==
    IF "x86" \in metadata.native_code
    THEN Invalid("x86 or x86_64 build detected - ARM only repository")
    ELSE IF abi_policy = "arm64_only"
              /\ metadata.native_code # {}
              /\ "arm64-v8a" \notin metadata.native_code
         THEN Invalid("arm64_only policy requires arm64-v8a")
         ELSE Valid

validate_abi(metadata, abi_policy) ==
    IF "x86" \in metadata.native_code \/ "x86_64" \in metadata.native_code
    THEN Invalid("x86 or x86_64 build detected - ARM only repository")
    ELSE IF abi_policy = "arm64_only"
              /\ metadata.native_code # {}
              /\ "arm64-v8a" \notin metadata.native_code
         THEN Invalid("arm64_only policy requires arm64-v8a")
         ELSE Valid

validate_package_id(metadata, allowed_ids) ==
    IF metadata.package_name = ""
    THEN Invalid("No package name found in APK")
    ELSE IF allowed_ids # <<>>
              /\ \A i \in 1..Len(allowed_ids) : allowed_ids[i] # metadata.package_name
         THEN Invalid("Package ID not in allowed list")
         ELSE Valid

\* as validate_signature, but a changed certificate is never rejected
validate_signature_always_allowed(metadata, cached_cert, allow_signature_change) ==
    IF metadata.signing_cert_sha256 = None
    THEN ValidWithWarning("Signing certificate not extracted (requires androguard/apksigner)")
    ELSE IF cached_cert # None /\ metadata.signing_cert_sha256 # cached_cert
         THEN ValidWithWarning("Signing certificate changed (allowed by policy)")
         ELSE Valid

validate_signature(metadata, cached_cert, allow_signature_change) ==
    LET current_cert == metadata.signing_cert_sha256 IN
    IF current_cert = None
    THEN ValidWithWarning("Signing certificate not extracted (requires androguard/apksigner)")
    ELSE IF cached_cert # None /\ current_cert # cached_cert
         THEN IF ~allow_signature_change
              THEN Invalid("Signing certificate changed and allow_signature_change=false")
              ELSE ValidWithWarning("Signing certificate changed (allowed by policy)")
         ELSE Valid

validate_version_code_no_check(version_code, cached_highest_version) ==
    Valid

validate_version_code(version_code, cached_highest_version) ==
    IF cached_highest_version # <<>> /\ version_code < cached_highest_version[1]
    THEN Invalid("Version code is less than cached highest")
    ELSE Valid

validate_duplicate_version_code_no_check(version_code, existing_version_codes) ==
    Valid

validate_duplicate_version_code(version_code, existing_version_codes) ==
    IF version_code \in existing_version_codes
    THEN Invalid("Duplicate version code")
    ELSE Valid

validate_duplicate_package_id_no_check(package_id, package_id_map, current_logical_id) ==
    Valid

validate_duplicate_package_id(package_id, package_id_map, current_logical_id) ==
    IF package_id \in DOMAIN package_id_map
         /\ package_id_map[package_id] # current_logical_id
    THEN Invalid("Duplicate package ID")
    ELSE Valid

-----------------------------------------------------------------------------
(* validator.py: AppValidator, the per-application validation session *)

AppValidator(logical_id, abi_policy, allowed_ids, allow_pkg_change, allow_signature_change, cached_cert, cached_highest_version) ==
    [logical_id |-> logical_id,
     abi_policy |-> abi_policy,
     allowed_ids |-> allowed_ids,
     allow_pkg_change |-> allow_pkg_change,
     allow_signature_change |-> allow_signature_change,
     cached_cert |-> cached_cert,
     cached_highest_version |-> cached_highest_version,
     seen_version_codes |-> {},
     validation_errors |-> <<>>,
     validation_warnings |-> <<>>]

\* a rule failed: the error is recorded in the session and the result returned
Reject(self, result) ==
    [result |-> result,
     self |-> [self EXCEPT !.validation_errors = Append(@, result.error_message)]]

WithWarning(self, result) ==
    IF result.warning_message # ""
    THEN [self EXCEPT !.validation_warnings = Append(@, result.warning_message)]
    ELSE self

validate_version_monotonicity_first(self, metadata) ==
    LET r_abi == validate_abi(metadata, self.abi_policy)
        r_pkg == validate_package_id(metadata, self.allowed_ids)
        r_sig == validate_signature(metadata, self.cached_cert, self.allow_signature_change)
        r_ver == validate_version_code(metadata.version_code, self.cached_highest_version)
        r_dup == validate_duplicate_version_code(metadata.version_code, self.seen_version_codes)
        self_abi == WithWarning(self, r_abi)
        self_sig == WithWarning(self_abi, r_sig)
    IN  IF ~r_abi.is_valid THEN Reject(self, r_abi)
        ELSE IF ~r_ver.is_valid THEN Reject(self_abi, r_ver)
        ELSE IF ~r_pkg.is_valid THEN Reject(self_abi, r_pkg)
        ELSE IF ~r_sig.is_valid THEN Reject(self_abi, r_sig)
        ELSE IF ~r_dup.is_valid THEN Reject(self_sig, r_dup)
        ELSE [result |-> Valid,
              self |-> [self_sig EXCEPT !.seen_version_codes = @ \cup {metadata.version_code}]]

validate_version_records_rejected(self, metadata) ==
    LET r_abi == validate_abi(metadata, self.abi_policy)
        r_pkg == validate_package_id(metadata, self.allowed_ids)
        r_sig == validate_signature(metadata, self.cached_cert, self.allow_signature_change)
        r_ver == validate_version_code(metadata.version_code, self.cached_highest_version)
        r_dup == validate_duplicate_version_code(metadata.version_code, self.seen_version_codes)
        self_abi == WithWarning(self, r_abi)
        self_sig == [WithWarning(self_abi, r_sig) EXCEPT
                        !.seen_version_codes = @ \cup {metadata.version_code}]
    IN  IF ~r_abi.is_valid THEN Reject(self, r_abi)
        ELSE IF ~r_pkg.is_valid THEN Reject(self_abi, r_pkg)
        ELSE IF ~r_sig.is_valid THEN Reject(self_abi, r_sig)
        ELSE IF ~r_ver.is_valid THEN Reject(self_sig, r_ver)
        ELSE IF ~r_dup.is_valid THEN Reject(self_sig, r_dup)
        ELSE [result |-> Valid, self |-> self_sig]

\* AppValidator.validate_version: the result and the session after the call
validate_version(self, metadata) ==
    LET r_abi == validate_abi(metadata, self.abi_policy)
        r_pkg == validate_package_id(metadata, self.allowed_ids)
        r_sig == validate_signature(metadata, self.cached_cert, self.allow_signature_change)
        r_ver == validate_version_code(metadata.version_code, self.cached_highest_version)
        r_dup == validate_duplicate_version_code(metadata.version_code, self.seen_version_codes)
        self_abi == WithWarning(self, r_abi)
        self_sig == WithWarning(self_abi, r_sig)
    IN  IF ~r_abi.is_valid THEN Reject(self, r_abi)
        ELSE IF ~r_pkg.is_valid THEN Reject(self_abi, r_pkg)
        ELSE IF ~r_sig.is_valid THEN Reject(self_abi, r_sig)
        ELSE IF ~r_ver.is_valid THEN Reject(self_sig, r_ver)
        ELSE IF ~r_dup.is_valid THEN Reject(self_sig, r_dup)
        ELSE [result |-> Valid,
              self |-> [self_sig EXCEPT !.seen_version_codes = @ \cup {metadata.version_code}]]

-----------------------------------------------------------------------------
(* validator.py: GlobalValidator, the run-wide validation session *)

GlobalValidator == [package_id_map |-> <<>>, duplicate_pairs |-> <<>>]

\* dict[key] = value on a dict modelled as a function
Put(d, key, value) == [k \in DOMAIN d \cup {key} |-> IF k = key THEN value ELSE d[k]]

register_package_id_last_wins(self, package_id, logical_id) ==
    LET result == validate_duplicate_package_id(package_id, self.package_id_map, logical_id)
    IN  IF ~result.is_valid
        THEN [result |-> result,
              self |-> [package_id_map |-> Put(self.package_id_map, package_id, logical_id),
                        duplicate_pairs |-> Append(self.duplicate_pairs,
                            <<package_id, self.package_id_map[package_id], logical_id>>)]]
        ELSE [result |-> Valid,
              self |-> [self EXCEPT !.package_id_map = Put(@, package_id, logical_id)]]

\* GlobalValidator.register_package_id: the result and the session after the call
register_package_id(self, package_id, logical_id) ==
    LET result == validate_duplicate_package_id(package_id, self.package_id_map, logical_id)
    IN  IF ~result.is_valid
        THEN [result |-> result,
              self |-> [self EXCEPT !.duplicate_pairs =
                            Append(@, <<package_id, self.package_id_map[package_id], logical_id>>)]]
        ELSE [result |-> Valid,
              self |-> [self EXCEPT !.package_id_map = Put(@, package_id, logical_id)]]

-----------------------------------------------------------------------------
(* Python's tuple order and list.sort / sorted *)

\* k1 < k2 for two tuples of integers of the same length
RECURSIVE TupleLess(_, _)
TupleLess(k1, k2) ==
    IF k1 = <<>> \/ k2 = <<>> THEN FALSE
    ELSE IF k1[1] # k2[1] THEN k1[1] < k2[1]
    ELSE TupleLess(Tail(k1), Tail(k2))

\* the position at which a stable descending sort puts an item of key k into
\* the sorted list t of <<key, item>> pairs: after every item whose key is >= k
InsertAfterEqual(t, k) ==
    LET smaller == {i \in 1..Len(t) : TupleLess(t[i][1], k)}
    IN  IF smaller = {} THEN Len(t) + 1
        ELSE CHOOSE i \in smaller : \A j \in smaller : i <= j

\* as InsertAfterEqual, but before the items of equal key: equal items end up reversed
InsertBeforeEqual(t, k) ==
    LET notgreater == {i \in 1..Len(t) : ~TupleLess(k, t[i][1])}
    IN  IF notgreater = {} THEN Len(t) + 1
        ELSE CHOOSE i \in notgreater : \A j \in notgreater : i <= j

InsertAt(t, i, x) == SubSeq(t, 1, i - 1) \o <<x>> \o SubSeq(t, i, Len(t))

RECURSIVE sorted_reverse_unstable(_)
sorted_reverse_unstable(keyed) ==
    IF keyed = <<>> THEN <<>>
    ELSE LET t == sorted_reverse_unstable(SubSeq(keyed, 1, Len(keyed) - 1))
             x == keyed[Len(keyed)]
         IN  InsertAt(t, InsertBeforeEqual(t, x[1]), x)

\* sorted(items, key=..., reverse=True) on a list of <<key, item>> pairs:
\* descending by key, items of equal key in their original order (the sort is stable)
RECURSIVE sorted_reverse(_)
sorted_reverse(keyed) ==
    IF keyed = <<>> THEN <<>>
    ELSE LET t == sorted_reverse(SubSeq(keyed, 1, Len(keyed) - 1))
             x == keyed[Len(keyed)]
         IN  InsertAt(t, InsertAfterEqual(t, x[1]), x)

Items(keyed) == [i \in 1..Len(keyed) |-> keyed[i][2]]

-----------------------------------------------------------------------------
(* index_builder.py *)

\* build_version_object (timestamps, version name, SDK levels, size and
\* permissions are carried through unread and are left out)
build_version_object(metadata, download_url) ==
    [file |-> [name |-> download_url, sha256 |-> metadata.sha256],
     manifest |->
        [versionCode |-> metadata.version_code,
         signer |-> IF metadata.signing_cert_sha256 # None
                    THEN [sha256 |-> <<metadata.signing_cert_sha256>>]
                    ELSE <<>>]
        @@ (IF metadata.native_code # {}
            THEN [nativecode |-> metadata.native_code]
            ELSE <<>>)]

\* v.get("manifest", {}).get("versionCode", 0)
VersionCodeOf(v) ==
    IF "versionCode" \in DOMAIN v.manifest THEN v.manifest.versionCode ELSE 0

KeyedByVersionCode(versions) ==
    [i \in 1..Len(versions) |-> <<(<<VersionCodeOf(versions[i])>>), versions[i]>>]

apply_retention_no_guard(versions, retain_count) ==
    LET sorted_versions == Items(sorted_reverse(KeyedByVersionCode(versions)))
    IN  IF retain_count >= 0
        THEN SubSeq(sorted_versions, 1, Min(retain_count, Len(sorted_versions)))
        ELSE SubSeq(sorted_versions, 1, Len(sorted_versions) + retain_count)

apply_retention(versions, retain_count) ==
    IF versions = <<>> \/ retain_count <= 0
    THEN <<>>
    ELSE LET sorted_versions == Items(sorted_reverse(KeyedByVersionCode(versions)))
         IN  SubSeq(sorted_versions, 1, Min(retain_count, Len(sorted_versions)))

\* an insertion-ordered dict is a sequence of <<key, value>> pairs with distinct keys
Keys(d) == {d[i][1] : i \in 1..Len(d)}

Lookup(d, key) == (CHOOSE i \in 1..Len(d) : d[i][1] = key)

\* d[key] = value: a new key is appended, a known key keeps its position
DictSet(d, key, value) ==
    IF key \in Keys(d)
    THEN [d EXCEPT ![Lookup(d, key)] = <<key, value>>]
    ELSE Append(d, <<key, value>>)

RECURSIVE versions_dict(_)
versions_dict(versions) ==
    IF versions = <<>> THEN <<>>
    ELSE LET v == versions[Len(versions)]
             d == versions_dict(SubSeq(versions, 1, Len(versions) - 1))
         IN  IF v.file.sha256 # "" THEN DictSet(d, v.file.sha256, v) ELSE d

\* build_package_object (the published metadata copied from the app config is left out)
build_package_object(package_id, versions, app_config) ==
    [metadata |->
        IF versions # <<>> /\ "sha256" \in DOMAIN versions[1].manifest.signer
        THEN [preferredSigner |-> versions[1].manifest.signer.sha256[1]]
        ELSE <<>>,
     versions |-> versions_dict(versions)]

\* the version build_index_v1 picks from a versions dict: the first, in iteration
\* order, of a version code above every version before it (and above -1)
RECURSIVE latest_version_last_wins(_)
latest_version_last_wins(versions) ==
    IF versions = <<>> THEN [code |-> -1, version |-> <<>>]
    ELSE LET before == latest_version_last_wins(SubSeq(versions, 1, Len(versions) - 1))
             version_obj == versions[Len(versions)][2]
         IN  IF VersionCodeOf(version_obj) >= before.code
             THEN [code |-> VersionCodeOf(version_obj), version |-> <<version_obj>>]
             ELSE before

RECURSIVE latest_version(_)
latest_version(versions) ==
    IF versions = <<>> THEN [code |-> -1, version |-> <<>>]
    ELSE LET before == latest_version(SubSeq(versions, 1, Len(versions) - 1))
             version_obj == versions[Len(versions)][2]
         IN  IF VersionCodeOf(version_obj) > before.code
             THEN [code |-> VersionCodeOf(version_obj), version |-> <<version_obj>>]
             ELSE before

\* build_index_v1: the packages list (repo_config is not read)
RECURSIVE build_index_v1(_)
build_index_v1(pkgs) ==
    IF pkgs = <<>> THEN <<>>
    ELSE LET rest == build_index_v1(SubSeq(pkgs, 1, Len(pkgs) - 1))
             package_id == pkgs[Len(pkgs)][1]
             found == latest_version(pkgs[Len(pkgs)][2].versions).version
             latest == found[1]
         IN  IF found # <<>>
             THEN Append(rest,
                    [packageName |-> package_id,
                     versionCode |-> VersionCodeOf(latest),
                     hash |-> latest.file.sha256,
                     hashType |-> "sha256"]
                    @@ (IF "nativecode" \in DOMAIN latest.manifest
                        THEN [nativecode |-> latest.manifest.nativecode] ELSE <<>>)
                    @@ (IF "sha256" \in DOMAIN latest.manifest.signer
                        THEN [sig |-> latest.manifest.signer.sha256[1]] ELSE <<>>))
             ELSE rest

-----------------------------------------------------------------------------
(* asset_selector.py *)

\* Asset file names, and for each the keywords its lower-cased name contains
\* (Python's `keyword in name.lower()`, for the keywords the selector tests)
FileNames ==
    {"app-arm64-v8a-release.apk", "app-aarch64.apk", "app-armeabi-v7a-release.apk",
     "app-armv7-debug.apk", "app-arm-release.apk", "app-x86_64-release.apk",
     "app-x86-debug.apk", "app-universal-release.apk", "App-ARM64-x86.APK",
     "app-arm-x86_64.apk", "app-arm64-v8a.apks"}

KeywordsIn(name) ==
    CASE name = "app-arm64-v8a-release.apk" -> {"arm64", "arm", "release"}
      [] name = "app-aarch64.apk" -> {"aarch64"}
      [] name = "app-armeabi-v7a-release.apk" -> {"armeabi-v7a", "arm", "release"}
      [] name = "app-armv7-debug.apk" -> {"armv7", "arm", "debug"}
      [] name = "app-arm-release.apk" -> {"arm", "release"}
      [] name = "app-x86_64-release.apk" -> {"x86_64", "x86", "release"}
      [] name = "app-x86-debug.apk" -> {"x86", "debug"}
      [] name = "app-universal-release.apk" -> {"release"}
      [] name = "App-ARM64-x86.APK" -> {"arm64", "arm", "x86"}
      [] name = "app-arm-x86_64.apk" -> {"arm", "x86_64", "x86"}
      [] name = "app-arm64-v8a.apks" -> {"arm64", "arm"}

Contains(name, keyword) == keyword \in KeywordsIn(name)

\* name.lower().endswith(".apk")
EndsWithApk(name) == name # "app-arm64-v8a.apks"

Asset(name, size, url) == [name |-> name, size |-> size, browser_download_url |-> url]

is_valid_apk_asset(asset, include_keywords, exclude_keywords) ==
    /\ EndsWithApk(asset.name)
    /\ \A i \in 1..Len(exclude_keywords) : ~Contains(asset.name, exclude_keywords[i])
    /\ include_keywords # <<>> =>
          \E i \in 1..Len(include_keywords) : Contains(asset.name, include_keywords[i])

\* the list of detected ABIs, in the order the code appends them
extract_abi_from_filename(filename) ==
    LET arm == IF Contains(filename, "arm64") \/ Contains(filename, "aarch64")
               THEN <<"arm64-v8a">>
               ELSE IF Contains(filename, "armv7") \/ Contains(filename, "armeabi-v7a")
                    THEN <<"armeabi-v7a">>
                    ELSE <<>>
        x86 == IF Contains(filename, "x86_64") THEN <<"x86_64">>
               ELSE IF Contains(filename, "x86") THEN <<"x86">>
               ELSE <<>>
        abis == arm \o x86
    IN  IF Contains(filename, "arm") /\ abis = <<>> THEN <<"armeabi-v7a">> ELSE abis

InList(x, list) == \E i \in 1..Len(list) : list[i] = x

\* score_asset without the two x86 branches: an x86 name scores like a universal one
score_asset_no_x86_branch(asset, abi_policy) ==
    LET abis == extract_abi_from_filename(asset.name)
        abi_score ==
            IF InList("arm64-v8a", abis) THEN 2
            ELSE IF InList("armeabi-v7a", abis) THEN 1
            ELSE IF abi_policy = "arm64_only" THEN 0
            ELSE 1
    IN  <<abi_score, asset.size>>

\* score_asset of select_best_apk: (abi_score, size)
score_asset(asset, abi_policy) ==
    LET abis == extract_abi_from_filename(asset.name)
        abi_score ==
            IF abi_policy = "arm64_only"
            THEN IF InList("arm64-v8a", abis) THEN 2
                 ELSE IF InList("armeabi-v7a", abis) THEN 1
                 ELSE 0
            ELSE IF InList("arm64-v8a", abis) THEN 2
                 ELSE IF InList("armeabi-v7a", abis) THEN 1
                 ELSE IF InList("x86_64", abis) THEN 0
                 ELSE IF InList("x86", abis) THEN 0
                 ELSE 1
    IN  <<abi_score, asset.size>>

RECURSIVE FilterValid(_, _, _)
FilterValid(assets, include_keywords, exclude_keywords) ==
    IF assets = <<>> THEN <<>>
    ELSE LET rest == FilterValid(Tail(assets), include_keywords, exclude_keywords)
         IN  IF is_valid_apk_asset(assets[1], include_keywords, exclude_keywords)
             THEN <<assets[1]>> \o rest
             ELSE rest

\* select_best_apk: <<>> for None, <<asset>> for the selected asset
select_best_apk(assets, include_keywords, exclude_keywords, abi_policy) ==
    LET valid_assets == FilterValid(assets, include_keywords, exclude_keywords)
        keyed == [i \in 1..Len(valid_assets) |->
                    <<score_asset(valid_assets[i], abi_policy), valid_assets[i]>>]
        sorted == Items(sorted_reverse(keyed))
    IN  IF valid_assets = <<>> THEN <<>> ELSE <<sorted[1]>>

\* check_abi_compliance: is_compliant (the detected ABIs are only reported)
check_abi_compliance(asset, abi_policy) ==
    LET abis == extract_abi_from_filename(asset.name)
    IN  IF InList("x86", abis) \/ InList("x86_64", abis) THEN FALSE
        ELSE IF abi_policy = "arm64_only" /\ abis # <<>> /\ ~InList("arm64-v8a", abis)
             THEN FALSE
             ELSE TRUE

-----------------------------------------------------------------------------
(* State before any run: nothing persisted, nothing in memory *)

NoApp == [state |-> "none"]

Reporter == [entries |-> <<>>, failed_apps |-> <<>>, warning_apps |-> <<>>]

EmptyCache == [apps |-> <<>>]

\* no file written yet: each file is <<>> (absent) or <<content>>
NoFiles == [cache |-> <<>>, index |-> <<>>, index_v1 |-> <<>>]

NoRun ==
    /\ pc = "start"
    /\ todo = <<>>
    /\ app = NoApp
    /\ returned = <<>>
    /\ cache = EmptyCache
    /\ reporter = Reporter
    /\ packages_data = <<>>
    /\ repo_config = <<>>
    /\ disk = NoFiles
    /\ exit_code = <<>>
    /\ runs = 0

-----------------------------------------------------------------------------
(* Unit harness: each function is applied once to inputs drawn from bounded  *)
(* sets; register_package_id is applied repeatedly to one GlobalValidator.  *)

\* metadata with the fields the validation rules read (the hash is not read)
RuleMetadata == {m \in Metadata : m.sha256 = "h1"}

AllowLists == {<<>>, <<"com.example.app">>}

\* sessions as process_app creates them, after zero or one accepted version
Sessions ==
    {[AppValidator("A", p, ids, FALSE, sig, cert, hv) EXCEPT !.seen_version_codes = seen] :
        p \in Policies, ids \in AllowLists, sig \in BOOLEAN, cert \in {None, "certA"},
        hv \in {<<>>, <<7>>, <<10>>}, seen \in {{}, {7}, {10}}}

SeqsUpTo(S, n) == UNION {[1..k -> S] : k \in 0..n}

\* version objects as build_version_object makes them
VersionObjects ==
    {build_version_object(m, "url") :
        m \in {x \in Metadata : /\ x.package_name = "com.example.app"
                                 /\ x.native_code = {"arm64-v8a"}
                                 /\ x.signing_cert_sha256 = None}}

\* versions dicts (hash -> version object, insertion-ordered) with at least one
\* version: main() puts a package into packages_data only through one of its versions
VersionDicts ==
    {[i \in 1..Len(vs) |-> <<vs[i].file.sha256, vs[i]>>] :
        vs \in {l \in SeqsUpTo({v \in VersionObjects : VersionCodeOf(v) \in {0, 7, 10}}, MaxVersions) :
                    /\ l # <<>>
                    /\ \A i, j \in 1..Len(l) : i # j => l[i].file.sha256 # l[j].file.sha256}}

PackagesData ==
    {<<(<<"com.example.app", [metadata |-> <<>>, versions |-> d]>>)>> : d \in VersionDicts}
    \cup {<<(<<"com.example.app", [metadata |-> <<>>, versions |-> d1]>>),
            (<<"org.other.app", [metadata |-> <<>>, versions |-> d2]>>)>> :
            d1 \in VersionDicts, d2 \in VersionDicts}

Assets == {Asset(n, sz, "url") : n \in FileNames, sz \in 1..MaxSize}

CallValidateAbi ==
    /\ call.op = "none" /\ history = <<>>
    /\ \E m \in RuleMetadata, p \in Policies :
          call' = [op |-> "validate_abi", metadata |-> m, abi_policy |-> p,
                   result |-> validate_abi(m, p)]
    /\ UNCHANGED <<history, global_validator, runVars>>

CallValidateVersion ==
    /\ call.op = "none" /\ history = <<>>
    /\ \E self \in Sessions, m \in RuleMetadata :
          LET r == validate_version(self, m)
          IN  call' = [op |-> "validate_version", self |-> self, metadata |-> m,
                       result |-> r.result, after |-> r.self]
    /\ UNCHANGED <<history, global_validator, runVars>>

CallApplyRetention ==
    /\ call.op = "none" /\ history = <<>>
    /\ \E vs \in SeqsUpTo(VersionObjects, MaxVersions), n \in -1..MaxRetain :
          LET r == apply_retention(vs, n)
          IN  call' = [op |-> "apply_retention", versions |-> vs, retain_count |-> n,
                       result |-> r, again |-> apply_retention(r, n)]
    /\ UNCHANGED <<history, global_validator, runVars>>

CallBuildIndexV1 ==
    /\ call.op = "none" /\ history = <<>>
    /\ \E pkgs \in PackagesData :
          call' = [op |-> "build_index_v1", packages_data |-> pkgs,
                   result |-> build_index_v1(pkgs)]
    /\ UNCHANGED <<history, global_validator, runVars>>

CallSelectBestApk ==
    /\ call.op = "none" /\ history = <<>>
    /\ \E assets \in SeqsUpTo(Assets, MaxAssets), p \in Policies,
          inc \in {<<>>, <<"release">>}, exc \in {<<>>, <<"debug">>} :
          LET r == select_best_apk(assets, inc, exc, p)
          IN  call' = [op |-> "select_best_apk", assets |-> assets, abi_policy |-> p,
                       include_keywords |-> inc, exclude_keywords |-> exc,
                       result |-> r,
                       compliant |-> IF r = <<>> THEN FALSE ELSE check_abi_compliance(r[1], p)]
    /\ UNCHANGED <<history, global_validator, runVars>>

CallRegister ==
    /\ call.op = "none" /\ Len(history) < MaxRegisterCalls
    /\ \E package_id \in PackageIds, logical_id \in LogicalIds :
          LET r == register_package_id(global_validator, package_id, logical_id)
          IN  /\ global_validator' = r.self
              /\ history' = Append(history,
                    [package_id |-> package_id, logical_id |-> logical_id,
                     before |-> global_validator, result |-> r.result])
    /\ UNCHANGED <<call, runVars>>

InitUnit ==
    /\ call = [op |-> "none"]
    /\ history = <<>>
    /\ global_validator = GlobalValidator
    /\ NoRun

NextUnit ==
    \/ CallValidateAbi
    \/ CallValidateVersion
    \/ CallApplyRetention
    \/ CallBuildIndexV1
    \/ CallSelectBestApk
    \/ CallRegister

SpecUnit == InitUnit /\ [][NextUnit]_vars

-----------------------------------------------------------------------------
(* reporter.py *)

AppendTo(d, key, message) ==
    Put(d, key, IF key \in DOMAIN d THEN Append(d[key], message) ELSE <<message>>)

error_without_failed_app(self, message, logical_id) ==
    [self EXCEPT !.entries =
        Append(@, [severity |-> "error", message |-> message, logical_id |-> logical_id])]

\* Reporter.error; logical_id is None when the caller gives none
error(self, message, logical_id) ==
    [entries |-> Append(self.entries,
                    [severity |-> "error", message |-> message, logical_id |-> logical_id]),
     failed_apps |-> IF logical_id # None /\ logical_id # ""
                     THEN AppendTo(self.failed_apps, logical_id, message)
                     ELSE self.failed_apps,
     warning_apps |-> self.warning_apps]

\* Reporter.warning
warning(self, message, logical_id) ==
    [entries |-> Append(self.entries,
                    [severity |-> "warning", message |-> message, logical_id |-> logical_id]),
     failed_apps |-> self.failed_apps,
     warning_apps |-> IF logical_id # None /\ logical_id # ""
                      THEN AppendTo(self.warning_apps, logical_id, message)
                      ELSE self.warning_apps]

\* Reporter.notice
notice(self, message, logical_id) ==
    [self EXCEPT !.entries =
        Append(@, [severity |-> "notice", message |-> message, logical_id |-> logical_id])]

has_failures(self) == DOMAIN self.failed_apps # {}

-----------------------------------------------------------------------------
(* index_builder.py: the index document *)

\* build_index with build_repo_object (the timestamp is the injected current time)
build_index(repo, packages) ==
    [repo |-> [name |-> IF "name" \in DOMAIN repo THEN repo.name ELSE "F-Droid Repo",
               description |-> IF "description" \in DOMAIN repo THEN repo.description
                               ELSE "F-Droid Repository",
               address |-> IF "url" \in DOMAIN repo THEN repo.url ELSE "",
               timestamp |-> "now"],
     packages |-> packages]

\* validate_index_structure: is_valid (packages is a dict by construction)
validate_index_structure(index) ==
    /\ "repo" \in DOMAIN index
    /\ {"name", "description", "address", "timestamp"} \subseteq DOMAIN index.repo
    /\ "packages" \in DOMAIN index

-----------------------------------------------------------------------------
(* main.py: inputs of a run *)

\* program constant: the retain count when neither the app nor the cache gives one
DefaultRetain == 2

\* one entry of apps in apps.yaml (retain_versions is <<>> when not configured)
AppConfig(logical_id, github, abi_policy, allowed_ids, allow_signature_change, retain_versions) ==
    [logical_id |-> logical_id,
     github |-> github,
     abi_policy |-> abi_policy,
     allowed_ids |-> allowed_ids,
     allow_signature_change |-> allow_signature_change,
     retain_versions |-> retain_versions,
     include_keywords |-> <<>>,
     exclude_keywords |-> <<>>]

\* a release asset together with what process_apk extracts from its download:
\* apk is <<metadata>>, or <<>> when process_apk raises RuntimeError
Artifact(name, size, url, apk) ==
    [name |-> name, size |-> size, browser_download_url |-> url, apk |-> apk]

\* the content hash of an artifact is determined by its content
ShaOf(version_code, native_code) ==
    IF native_code # {"arm64-v8a"} THEN "hx"
    ELSE CASE version_code = 0 -> "h0"
           [] version_code = 5 -> "h5"
           [] version_code = 7 -> "h7"
           [] version_code = 9 -> "h9"
           [] version_code = 10 -> "h10"

Apk(package_name, version_code, native_code, cert) ==
    [package_name |-> package_name,
     version_code |-> version_code,
     native_code |-> native_code,
     signing_cert_sha256 |-> cert,
     sha256 |-> ShaOf(version_code, native_code)]

\* a 64-bit-ARM-only artifact of com.example.app
ArmArtifact(version_code) ==
    Artifact("app-arm64-v8a-release.apk", 2, "url",
             <<Apk("com.example.app", version_code, {"arm64-v8a"}, None)>>)

\* an artifact whose name and manifest declare x86_64
X86Artifact ==
    Artifact("app-x86_64-release.apk", 2, "url",
             <<Apk("com.example.app", 7, {"x86_64"}, None)>>)

\* an artifact of a universal name that ships x86_64 libraries too
FatArtifact ==
    Artifact("app-universal-release.apk", 2, "url",
             <<Apk("com.example.app", 7, {"arm64-v8a", "x86_64"}, None)>>)

\* an artifact process_apk cannot parse
CorruptArtifact == Artifact("app-universal-release.apk", 1, "url", <<>>)

Release(assets) == [assets |-> assets]

\* the releases fetch_releases may return for the application of Spec
Releases ==
    {Release(<<>>), Release(<<X86Artifact>>), Release(<<FatArtifact>>),
     Release(<<CorruptArtifact>>), Release(<<X86Artifact, ArmArtifact(7)>>)}
    \cup {Release(<<ArmArtifact(v)>>) : v \in VersionCodes}

\* the apps.yaml files of Spec: one application A, no application, or an entry
\* without logical_id
AppLists ==
    {<<>>, <<AppConfig("", "owner/a", "arm_preferred", <<>>, FALSE, <<>>)>>}
    \cup {<<AppConfig("A", "owner/a", p, ids, FALSE, n)>> :
            p \in Policies, ids \in AllowLists, n \in {<<1>>, <<2>>}}

\* the releases of the upstream repositories of SpecTwo
FewReleases == {Release(<<X86Artifact>>), Release(<<ArmArtifact(9)>>), Release(<<ArmArtifact(10)>>)}

\* a 64-bit-ARM-only artifact of com.example.app with the signing certificate
\* process_apk reports for it. extract_apk_metadata as it stands reports None
\* for every file (apk_processor.py, line 132); the other values stand for an
\* extractor that fills signing_cert_sha256, the case validate_signature and the
\* signing_cert of the cache are written for. Each artifact has its own
\* content, and so its own hash.
SignedArtifact(version_code, cert) ==
    Artifact("app-arm64-v8a-release.apk", 2, "url",
             <<[Apk("com.example.app", version_code, {"arm64-v8a"}, cert)
                    EXCEPT !.sha256 = IF cert = "certB" THEN "hb" ELSE @]>>)

\* the releases of the upstream repository of SpecSigned
SignedReleases ==
    {Release(<<SignedArtifact(9, "certA")>>), Release(<<SignedArtifact(10, None)>>),
     Release(<<SignedArtifact(10, "certB")>>)}

\* fetch_releases(github_repo): what the upstream repository may return
ReleasesOf(github) ==
    IF github = "owner/a" THEN Releases
    ELSE IF github = "owner/signed" THEN SignedReleases
    ELSE FewReleases

RepoConfig == [url |-> "https://repo.example"]

\* load_yaml_config: the repo and apps sections of apps.yaml
Config(repo, apps) == [repo |-> repo, apps |-> apps]

\* the apps.yaml files of Spec
Configs == {Config(RepoConfig, apps) : apps \in AppLists}

\* an application of SpecTwo
SmallApp(logical_id, allowed_ids) ==
    AppConfig(logical_id, "owner/few", "arm64_only", allowed_ids, FALSE, <<>>)

\* the allow-lists of SpecTwo: the second one names another package first
TwoAllowLists == AllowLists \cup {<<"org.other.app", "com.example.app">>}

\* the apps.yaml files of SpecTwo: two applications A and B, an entry without
\* logical_id before B, and the one application A under a repo section with or
\* without url
TwoAppConfigs ==
    {Config(RepoConfig, <<SmallApp("A", a), SmallApp("B", b)>>) : a, b \in AllowLists}
    \cup {Config(RepoConfig, <<SmallApp("", <<>>), SmallApp("B", <<"com.example.app">>)>>)}
    \cup {Config(repo, <<SmallApp("A", a)>>) :
            repo \in {RepoConfig, <<>>}, a \in TwoAllowLists \ {<<>>}}

-----------------------------------------------------------------------------
(* main.py: process_app *)

\* what main's loop holds after a call of process_app: the application, the
\* package id process_app gave to register_package_id (None when it did not get
\* there) and the return value, <<>> for None
ReturnValue(logical_id, package_id, result) ==
    [logical_id |-> logical_id, package_id |-> package_id, result |-> result]

\* a frame of process_app that has returned: result is <<>> for None
Returned(frame, result) == [frame EXCEPT !.state = "returned", !.result = result]

Frame(app_config) ==
    [state |-> "releases",
     config |-> app_config,
     app_validator |-> <<>>,
     remaining |-> 0,
     releases |-> <<>>,
     valid_versions |-> <<>>,
     new_highest_version |-> <<>>,
     new_signing_cert |-> None,
     result |-> <<>>]

\* as CachedApp, but the entry of another application is read when there is one
CachedAppOfAnother(c, logical_id) ==
    IF DOMAIN c.apps \ {logical_id} # {}
    THEN c.apps[CHOOSE k \in DOMAIN c.apps \ {logical_id} : TRUE]
    ELSE IF logical_id \in DOMAIN c.apps THEN c.apps[logical_id] ELSE <<>>

\* cache.get("apps", {}).get(logical_id, {})
CachedApp(c, logical_id) ==
    IF logical_id \in DOMAIN c.apps THEN c.apps[logical_id] ELSE <<>>

CachedCert(c, logical_id) ==
    IF "signing_cert" \in DOMAIN CachedApp(c, logical_id)
    THEN CachedApp(c, logical_id).signing_cert ELSE None

CachedHighest(c, logical_id) ==
    IF "highest_versionCode" \in DOMAIN CachedApp(c, logical_id)
    THEN CachedApp(c, logical_id).highest_versionCode ELSE <<>>

\* lines 81-89: an entry without logical_id or github is reported and skipped
BeginAppMissingField ==
    /\ pc = "apps" /\ todo # <<>> /\ app.state # "releases"
    /\ Head(todo).logical_id = "" \/ Head(todo).github = ""
    /\ reporter' = error(reporter, "Missing logical_id or github for app config",
                         IF Head(todo).logical_id # "" THEN Head(todo).logical_id ELSE "unknown")
    /\ app' = Returned(Frame(Head(todo)), <<>>)
    /\ returned' = Append(returned, ReturnValue(Head(todo).logical_id, None, <<>>))
    /\ todo' = Tail(todo)
    /\ UNCHANGED <<call, history, global_validator, pc, cache, packages_data,
                   repo_config, disk, exit_code, runs>>

\* lines 91-116: the session is created from the cache entry
NewFrame(app_config) ==
    [Frame(app_config) EXCEPT !.app_validator =
        AppValidator(app_config.logical_id, app_config.abi_policy, app_config.allowed_ids,
                     FALSE, app_config.allow_signature_change,
                     CachedCert(cache, app_config.logical_id),
                     CachedHighest(cache, app_config.logical_id))]

BeginAppNoReleasesStops ==
    /\ pc = "apps" /\ todo # <<>> /\ app.state # "releases"
    /\ Head(todo).logical_id # "" /\ Head(todo).github # ""
    /\ \E message \in {"Failed to fetch releases", "No valid releases found"} :
          reporter' = error(notice(reporter, "Processing", None), message, Head(todo).logical_id)
    /\ app' = Returned(NewFrame(Head(todo)), <<>>)
    /\ returned' = Append(returned, ReturnValue(Head(todo).logical_id, None, <<>>))
    /\ todo' = <<>>
    /\ UNCHANGED <<call, history, global_validator, pc, cache, packages_data,
                   repo_config, disk, exit_code, runs>>

\* lines 118-134: fetch_releases raises, or returns no release
BeginAppNoReleases ==
    /\ pc = "apps" /\ todo # <<>> /\ app.state # "releases"
    /\ Head(todo).logical_id # "" /\ Head(todo).github # ""
    /\ \E message \in {"Failed to fetch releases", "No valid releases found"} :
          reporter' = error(notice(reporter, "Processing", None), message, Head(todo).logical_id)
    /\ app' = Returned(NewFrame(Head(todo)), <<>>)
    /\ returned' = Append(returned, ReturnValue(Head(todo).logical_id, None, <<>>))
    /\ todo' = Tail(todo)
    /\ UNCHANGED <<call, history, global_validator, pc, cache, packages_data,
                   repo_config, disk, exit_code, runs>>

\* lines 118-139: fetch_releases returns n >= 1 releases
BeginAppFetched ==
    /\ pc = "apps" /\ todo # <<>> /\ app.state # "releases"
    /\ Head(todo).logical_id # "" /\ Head(todo).github # ""
    /\ \E n \in 1..MaxReleases :
          app' = [NewFrame(Head(todo)) EXCEPT !.remaining = n]
    /\ reporter' = notice(reporter, "Processing", None)
    /\ todo' = Tail(todo)
    /\ UNCHANGED <<call, history, returned, global_validator, pc, cache, packages_data,
                   repo_config, disk, exit_code, runs>>

\* the release is skipped with a warning (the `continue` statements of the loop)
Skip(release, message, validator) ==
    /\ app' = [app EXCEPT !.remaining = @ - 1,
                          !.releases = Append(@, release),
                          !.app_validator = validator]
    /\ reporter' = warning(reporter, message, app.config.logical_id)

\* lines 196-207: an accepted version is tracked and appended
Accept(release, download_url, metadata, validator) ==
    /\ app' = [app EXCEPT
            !.remaining = @ - 1,
            !.releases = Append(@, release),
            !.app_validator = validator,
            !.new_highest_version =
                IF @ = <<>> \/ metadata.version_code > @[1]
                THEN <<metadata.version_code>> ELSE @,
            !.new_signing_cert =
                IF metadata.signing_cert_sha256 # None
                THEN metadata.signing_cert_sha256 ELSE @,
            !.valid_versions = Append(@, build_version_object(metadata, download_url))]
    /\ UNCHANGED reporter

\* lines 141-207: one iteration of the loop over the releases
ProcessReleaseOf(release) ==
    \E selected \in {select_best_apk(release.assets, app.config.include_keywords,
                                     app.config.exclude_keywords, app.config.abi_policy)} :
        IF selected = <<>>
        THEN Skip(release, "No valid APK asset in release", app.app_validator)
        ELSE \E asset \in {selected[1]} :
             IF ~check_abi_compliance(asset, app.config.abi_policy)
             THEN Skip(release, "Release has non-compliant ABI", app.app_validator)
             ELSE IF asset.browser_download_url = ""
             THEN Skip(release, "No download URL for asset in release", app.app_validator)
             ELSE IF asset.apk = <<>>
             THEN Skip(release, "Failed to process APK", app.app_validator)
             ELSE \E checked \in {validate_version(app.app_validator, asset.apk[1])} :
                  IF ~checked.result.is_valid
                  THEN Skip(release, checked.result.error_message, checked.self)
                  ELSE Accept(release, asset.browser_download_url, asset.apk[1], checked.self)

ProcessRelease ==
    /\ pc = "apps" /\ app.state = "releases" /\ app.remaining > 0
    /\ \E release \in ReleasesOf(app.config.github) : ProcessReleaseOf(release)
    /\ UNCHANGED <<call, history, returned, global_validator, pc, todo, cache, packages_data,
                   repo_config, disk, exit_code, runs>>

\* v.get("manifest", {}).get("packageName") of the first version that has one,
\* None when no version has
RECURSIVE FirstPackageName(_)
FirstPackageName(versions) ==
    IF versions = <<>> THEN None
    ELSE IF "packageName" \in DOMAIN versions[1].manifest
              /\ versions[1].manifest.packageName # ""
         THEN versions[1].manifest.packageName
         ELSE FirstPackageName(Tail(versions))

\* lines 214-229: the package id of the application, None when undetermined
ResolvePackageId(frame) ==
    IF FirstPackageName(frame.valid_versions) # None
    THEN FirstPackageName(frame.valid_versions)
    ELSE IF frame.config.allowed_ids # <<>> THEN frame.config.allowed_ids[1] ELSE None

\* lines 238-241
RetainCount(frame) ==
    IF frame.config.retain_versions # <<>> THEN frame.config.retain_versions[1]
    ELSE DefaultRetain

\* lines 244-250: the cache entry written for the application
CacheEntry(frame, package_id) ==
    [package_id |-> package_id,
     signing_cert |-> IF frame.new_signing_cert # None THEN frame.new_signing_cert
                      ELSE frame.app_validator.cached_cert,
     highest_versionCode |->
        IF frame.new_highest_version # <<>> /\ frame.new_highest_version[1] # 0
        THEN frame.new_highest_version
        ELSE frame.app_validator.cached_highest_version]

Values(d) == [i \in 1..Len(d) |-> d[i][2]]

\* lines 209-264 of process_app and lines 312-321 of main: the rest of
\* process_app after the loop, and main's handling of what it returns
FinishApp ==
    /\ pc = "apps" /\ app.state = "releases" /\ app.remaining = 0
    /\ LET logical_id == app.config.logical_id
           package_id == ResolvePackageId(app)
           registered == register_package_id(global_validator, package_id, logical_id)
       IN  IF app.valid_versions = <<>>
           THEN /\ reporter' = error(reporter, "No valid versions found after validation", logical_id)
                /\ app' = Returned(app, <<>>)
                /\ returned' = Append(returned, ReturnValue(logical_id, None, <<>>))
                /\ UNCHANGED <<global_validator, cache, packages_data>>
           ELSE IF package_id = None
           THEN /\ reporter' = error(reporter, "Could not determine package ID", logical_id)
                /\ app' = Returned(app, <<>>)
                /\ returned' = Append(returned, ReturnValue(logical_id, None, <<>>))
                /\ UNCHANGED <<global_validator, cache, packages_data>>
           ELSE IF ~registered.result.is_valid
           THEN /\ reporter' = error(reporter, registered.result.error_message, logical_id)
                /\ global_validator' = registered.self
                /\ app' = Returned(app, <<>>)
                /\ returned' = Append(returned, ReturnValue(logical_id, package_id, <<>>))
                /\ UNCHANGED <<cache, packages_data>>
           ELSE \E retained \in {apply_retention(app.valid_versions, RetainCount(app))} :
                \E package_obj \in {build_package_object(package_id, retained, app.config)} :
                \E pkg_id \in {FirstPackageName(Values(package_obj.versions))} :
                /\ global_validator' = registered.self
                /\ cache' = IF app.new_highest_version # <<>> \/ app.new_signing_cert # None
                            THEN [cache EXCEPT !.apps = Put(@, logical_id, CacheEntry(app, package_id))]
                            ELSE cache
                /\ reporter' = notice(reporter, "Successfully processed", logical_id)
                /\ app' = Returned([app EXCEPT !.valid_versions = retained], <<package_obj>>)
                /\ returned' = Append(returned,
                                      ReturnValue(logical_id, package_id, <<package_obj>>))
                /\ packages_data' = IF pkg_id # None
                                    THEN DictSet(packages_data, pkg_id, package_obj)
                                    ELSE packages_data
    /\ UNCHANGED <<call, history, pc, todo, repo_config, disk, exit_code, runs>>

-----------------------------------------------------------------------------
(* main.py: main *)

\* load_metadata_cache: the content of the file, {"apps": {}} when there is none
\* (the JSON round trip keeps strings, integers and None as they are)
load_metadata_cache(files) == IF files.cache = <<>> THEN EmptyCache ELSE files.cache[1]

\* main returns: the run is over
Return(code) ==
    /\ pc' = "start"
    /\ exit_code' = <<code>>

\* lines 278-284: apps.yaml cannot be loaded
StartRunNoConfig ==
    /\ pc = "start" /\ runs < MaxRuns
    /\ runs' = runs + 1
    /\ reporter' = error(Reporter, "Failed to load apps.yaml", None)
    /\ Return(1)
    /\ app' = NoApp
    /\ returned' = <<>>
    /\ UNCHANGED <<call, history, global_validator, todo, cache, packages_data,
                   repo_config, disk>>

\* lines 278-302: the configuration and the cache are loaded; configs are the
\* apps.yaml files the run may find
StartRunFrom(configs) ==
    /\ pc = "start" /\ runs < MaxRuns
    /\ runs' = runs + 1
    /\ cache' = load_metadata_cache(disk)
    /\ app' = NoApp
    /\ global_validator' = GlobalValidator
    /\ packages_data' = <<>>
    /\ returned' = <<>>
    /\ \E config \in configs :
          /\ repo_config' = config.repo
          /\ todo' = config.apps
          /\ IF config.apps = <<>>
             THEN /\ reporter' = error(Reporter, "No apps defined in apps.yaml", None)
                  /\ Return(1)
             ELSE /\ reporter' = Reporter
                  /\ pc' = "apps"
                  /\ exit_code' = <<>>
    /\ UNCHANGED <<call, history, disk>>

StartRun == StartRunFrom(Configs)

RECURSIVE ReportDuplicates(_, _)
ReportDuplicates(self, duplicate_pairs) ==
    IF duplicate_pairs = <<>> THEN self
    ELSE ReportDuplicates(error(self, "Duplicate package ID between", None),
                          Tail(duplicate_pairs))

\* lines 323-341: the index is built and fails the structural check. build_index
\* always gives a document with both keys, so this step is never enabled and
\* is not a disjunct of Next.
IndexInvalid ==
    /\ pc = "apps" /\ todo = <<>> /\ app.state # "releases"
    /\ ~validate_index_structure(build_index(repo_config, packages_data))
    /\ reporter' = error(ReportDuplicates(reporter, global_validator.duplicate_pairs),
                         "Index validation failed", None)
    /\ Return(1)
    /\ UNCHANGED <<call, history, returned, global_validator, todo, app, cache, packages_data,
                   repo_config, disk, runs>>

\* lines 323-346: the index is built, passes the check and is written
WriteIndex ==
    /\ pc = "apps" /\ todo = <<>> /\ app.state # "releases"
    /\ validate_index_structure(build_index(repo_config, packages_data))
    /\ disk' = [disk EXCEPT !.index = <<build_index(repo_config, packages_data)>>]
    /\ reporter' = notice(ReportDuplicates(reporter, global_validator.duplicate_pairs),
                          "Successfully wrote index-v2.json", None)
    /\ pc' = "write_v1"
    /\ UNCHANGED <<call, history, returned, global_validator, todo, app, cache, packages_data,
                   repo_config, exit_code, runs>>

\* lines 343-350: write_index raises (the file cannot be opened)
WriteIndexFails ==
    /\ pc = "apps" /\ todo = <<>> /\ app.state # "releases"
    /\ validate_index_structure(build_index(repo_config, packages_data))
    /\ reporter' = error(ReportDuplicates(reporter, global_validator.duplicate_pairs),
                         "Failed to write index-v2.json", None)
    /\ Return(1)
    /\ UNCHANGED <<call, history, returned, global_validator, todo, app, cache, packages_data,
                   repo_config, disk, runs>>

\* lines 352-357
WriteIndexV1 ==
    /\ pc = "write_v1"
    /\ disk' = [disk EXCEPT !.index_v1 = <<[packages |-> build_index_v1(packages_data)]>>]
    /\ reporter' = notice(reporter, "Successfully wrote index-v1.json", None)
    /\ pc' = "save_cache"
    /\ UNCHANGED <<call, history, returned, global_validator, todo, app, cache, packages_data,
                   repo_config, exit_code, runs>>

\* as WriteIndexV1Fails, but the cache is saved before the failure is reported
WriteIndexV1FailsCacheSaved ==
    /\ pc = "write_v1"
    /\ disk' = [disk EXCEPT !.cache = <<cache>>]
    /\ reporter' = error(reporter, "Failed to write index-v1.json", None)
    /\ Return(1)
    /\ UNCHANGED <<call, history, returned, global_validator, todo, app, cache, packages_data,
                   repo_config, runs>>

\* lines 358-361: building or writing index-v1.json raises
WriteIndexV1Fails ==
    /\ pc = "write_v1"
    /\ reporter' = error(reporter, "Failed to write index-v1.json", None)
    /\ Return(1)
    /\ UNCHANGED <<call, history, returned, global_validator, todo, app, cache, packages_data,
                   repo_config, disk, runs>>

\* lines 372-376
ExitCode(self) == IF has_failures(self) THEN 2 ELSE 0

\* lines 363-376: the cache is saved and the run returns
SaveCache ==
    /\ pc = "save_cache"
    /\ disk' = [disk EXCEPT !.cache = <<cache>>]
    /\ Return(ExitCode(reporter))
    /\ UNCHANGED <<call, history, returned, global_validator, todo, app, cache, reporter,
                   packages_data, repo_config, runs>>

\* lines 364-376: save_metadata_cache raises, which is only a warning
SaveCacheFails ==
    /\ pc = "save_cache"
    /\ reporter' = warning(reporter, "Failed to save metadata cache", None)
    /\ Return(ExitCode(reporter))
    /\ UNCHANGED <<call, history, returned, global_validator, todo, app, cache, packages_data,
                   repo_config, disk, runs>>

Init ==
    /\ call = [op |-> "none"]
    /\ history = <<>>
    /\ global_validator = GlobalValidator
    /\ NoRun

Next ==
    \/ StartRunNoConfig
    \/ StartRun
    \/ BeginAppMissingField
    \/ BeginAppNoReleases
    \/ BeginAppFetched
    \/ ProcessRelease
    \/ FinishApp
    \/ WriteIndex
    \/ WriteIndexFails
    \/ WriteIndexV1
    \/ WriteIndexV1Fails
    \/ SaveCache
    \/ SaveCacheFails

Spec == Init /\ [][Next]_vars

StartRunTwo == StartRunFrom(TwoAppConfigs)

NextTwo ==
    \/ StartRunNoConfig
    \/ StartRunTwo
    \/ BeginAppMissingField
    \/ BeginAppNoReleases
    \/ BeginAppFetched
    \/ ProcessRelease
    \/ FinishApp
    \/ WriteIndex
    \/ WriteIndexFails
    \/ WriteIndexV1
    \/ WriteIndexV1Fails
    \/ SaveCache
    \/ SaveCacheFails

\* runs over two applications
SpecTwo == Init /\ [][NextTwo]_vars

\* the apps.yaml files of SpecLive
LiveConfigs ==
    {Config(RepoConfig, <<SmallApp("A", a), SmallApp("B", <<"com.example.app">>)>>) :
        a \in AllowLists}
    \cup {Config(RepoConfig, <<SmallApp("", <<>>), SmallApp("B", <<"com.example.app">>)>>)}

StartRunLive == StartRunFrom(LiveConfigs)

\* the steps main takes once it has been started
RunStep ==
    \/ BeginAppMissingField
    \/ BeginAppNoReleases
    \/ BeginAppFetched
    \/ ProcessRelease
    \/ FinishApp
    \/ WriteIndex
    \/ WriteIndexFails
    \/ WriteIndexV1
    \/ WriteIndexV1Fails
    \/ SaveCache
    \/ SaveCacheFails

NextLive ==
    \/ StartRunNoConfig
    \/ StartRunLive
    \/ RunStep

\* a started run keeps executing: main is one sequential thread and every
\* collaborator call (fetch, download, file write) returns or raises
SpecLive == Init /\ [][NextLive]_vars /\ WF_vars(RunStep)

\* the apps.yaml files of SpecSigned: the application A with and without the
\* permission to change its signing certificate, with a retain count of 0 or
\* below, and an entry without logical_id
SignedConfigs ==
    {Config(RepoConfig,
            <<AppConfig("A", "owner/signed", "arm64_only", <<"com.example.app">>, sig, <<>>)>>) :
        sig \in BOOLEAN}
    \cup {Config(RepoConfig,
            <<AppConfig("A", "owner/signed", "arm64_only", <<"com.example.app">>, FALSE, n)>>) :
        n \in {<<0>>, <<-1>>}}
    \cup {Config(RepoConfig, <<SmallApp("", <<>>)>>)}

StartRunSigned == StartRunFrom(SignedConfigs)

NextSigned == StartRunNoConfig \/ StartRunSigned \/ RunStep

SpecSigned == Init /\ [][NextSigned]_vars

-----------------------------------------------------------------------------
(* Properties of the single functions, checked under SpecUnit *)

HasX86(native_code) == "x86" \in native_code \/ "x86_64" \in native_code

\* C1: an artifact whose declared native architectures include x86 or x86_64 is
\* Invalid for validate_abi and for AppValidator.validate_version, under every
\* policy and whatever the other metadata and the session hold.
C1_X86AlwaysRejected ==
    (call.op \in {"validate_abi", "validate_version"} /\ HasX86(call.metadata.native_code))
        => ~call.result.is_valid

C1_Witness ==
    /\ call.op = "validate_version"
    /\ call.self.abi_policy = "arm_preferred"
    /\ call.metadata.native_code = {"arm64-v8a", "x86_64"}
    /\ call.metadata.package_name = "com.example.app"
    /\ ~call.result.is_valid

Count(s, x) == Cardinality({i \in 1..Len(s) : s[i] = x})

\* C3: apply_retention returns records taken from the input, sorted by version
\* code descending, min(N, input length) of them for N >= 0, and the empty list
\* when N <= 0 or the input is empty.
C3_RetentionResult ==
    call.op = "apply_retention" =>
        LET vs == call.versions
            n == call.retain_count
            r == call.result
        IN  /\ \A i \in 1..Len(r) : Count(r, r[i]) <= Count(vs, r[i])
            /\ \A i, j \in 1..Len(r) : i < j => VersionCodeOf(r[i]) >= VersionCodeOf(r[j])
            /\ n >= 0 => Len(r) = Min(n, Len(vs))
            /\ (n <= 0 \/ vs = <<>>) => r = <<>>

C3_Witness ==
    /\ call.op = "apply_retention"
    /\ Len(call.versions) = 3
    /\ call.retain_count = 2
    /\ VersionCodeOf(call.versions[1]) < VersionCodeOf(call.versions[3])
    /\ Len(call.result) = 2

\* C4: apply_retention is idempotent: applied to its own result with the same
\* retain count it returns that result, element for element in the same order,
\* also when version codes are equal.
C4_RetentionIdempotent ==
    call.op = "apply_retention" => call.again = call.result

C4_Witness ==
    /\ call.op = "apply_retention"
    /\ Len(call.result) >= 2
    /\ VersionCodeOf(call.result[1]) = VersionCodeOf(call.result[2])
    /\ call.result[1] # call.result[2]
    /\ call.again = call.result

\* the GlobalValidator after the j-th call of the history
AfterCall(j) == IF j < Len(history) THEN history[j + 1].before ELSE global_validator

SamePair(i, j) ==
    /\ history[i].package_id = history[j].package_id
    /\ history[i].logical_id = history[j].logical_id

\* C5 as stated: a second register_package_id call with the same
\* (package_id, logical_id) pair returns Valid and changes neither the
\* package-id map nor the collision pairs.
C5_RepeatedPairIsNoOp ==
    \A j \in 1..Len(history) :
        (\E i \in 1..(j - 1) : SamePair(i, j))
            => /\ history[j].result.is_valid
               /\ AfterCall(j) = history[j].before

\* C5 as amended: a register_package_id call repeating a pair whose earlier call
\* returned Valid returns Valid and changes neither the package-id map nor the
\* collision pairs.
C5_RepeatedValidPairIsNoOp ==
    \A j \in 1..Len(history) :
        (\E i \in 1..(j - 1) : SamePair(i, j) /\ history[i].result.is_valid)
            => /\ history[j].result.is_valid
               /\ AfterCall(j) = history[j].before

C5_Witness ==
    /\ Len(history) = 3
    /\ SamePair(1, 3)
    /\ ~SamePair(1, 2)
    /\ history[1].result.is_valid
    /\ history[3].result.is_valid
    /\ global_validator = history[3].before

\* C6: registering a package id claimed by another logical id L1 returns
\* Invalid, appends exactly the pair (package_id, L1, L2) and leaves the map
\* unchanged; the owner of a claimed package id is always the logical id of the
\* first call that registered it.
C6_CollisionKeepsFirstClaim ==
    /\ \A j \in 1..Len(history) :
          LET c == history[j]
              m == c.before.package_id_map
          IN  (c.package_id \in DOMAIN m /\ m[c.package_id] # c.logical_id)
                  => /\ ~c.result.is_valid
                     /\ AfterCall(j).duplicate_pairs =
                            Append(c.before.duplicate_pairs,
                                   <<c.package_id, m[c.package_id], c.logical_id>>)
                     /\ AfterCall(j).package_id_map = m
    /\ \A p \in DOMAIN global_validator.package_id_map :
          \E j \in 1..Len(history) :
              /\ history[j].package_id = p
              /\ \A i \in 1..(j - 1) : history[i].package_id # p
              /\ global_validator.package_id_map[p] = history[j].logical_id

C6_Witness ==
    /\ Len(history) = 2
    /\ history[1].package_id = history[2].package_id
    /\ history[1].logical_id = "A"
    /\ history[2].logical_id = "B"
    /\ ~history[2].result.is_valid
    /\ global_validator.duplicate_pairs = <<(<<history[1].package_id, "A", "B">>)>>
    /\ global_validator.package_id_map[history[1].package_id] = "A"

\* C7: for every package of the index the legacy index holds exactly one
\* record, and it is the version of the highest version code; among several
\* versions of that code, the first in the iteration order of the version map.
C7_LegacyPicksHighest ==
    call.op = "build_index_v1" =>
        \A k \in 1..Len(call.packages_data) :
            LET package_id == call.packages_data[k][1]
                vs == call.packages_data[k][2].versions
                top == CHOOSE i \in 1..Len(vs) :
                          /\ \A j \in 1..Len(vs) :
                                VersionCodeOf(vs[j][2]) <= VersionCodeOf(vs[i][2])
                          /\ \A j \in 1..(i - 1) :
                                VersionCodeOf(vs[j][2]) < VersionCodeOf(vs[i][2])
                recs == {i \in 1..Len(call.result) : call.result[i].packageName = package_id}
            IN  /\ Cardinality(recs) = 1
                /\ \A i \in recs :
                      /\ call.result[i].versionCode = VersionCodeOf(vs[top][2])
                      /\ call.result[i].hash = vs[top][1]

C7_Witness ==
    /\ call.op = "build_index_v1"
    /\ Len(call.packages_data) = 2
    /\ LET vs == call.packages_data[1][2].versions
       IN  /\ Len(vs) = 3
           /\ VersionCodeOf(vs[1][2]) = 7
           /\ VersionCodeOf(vs[2][2]) = 10
           /\ VersionCodeOf(vs[3][2]) = 10
           /\ call.result[1].versionCode = 10
           /\ call.result[1].hash = vs[2][1]

OnlyX86Hint(name) ==
    LET abis == extract_abi_from_filename(name)
    IN  abis # <<>> /\ \A i \in 1..Len(abis) : abis[i] \in {"x86", "x86_64"}

ArmHint(name) ==
    LET abis == extract_abi_from_filename(name)
    IN  InList("arm64-v8a", abis) \/ InList("armeabi-v7a", abis)

\* C9: under arm_preferred select_best_apk never returns a file whose name
\* carries only an x86/x86_64 hint when the filtered set holds a file with an ARM
\* hint, whatever the sizes; and a selected file of an x86-only name fails the
\* ABI compliance check, on which process_app skips the release.
C9_X86NeverBeatsArm ==
    (call.op = "select_best_apk" /\ call.result # <<>> /\ OnlyX86Hint(call.result[1].name))
        => /\ call.abi_policy = "arm_preferred" =>
                \A i \in 1..Len(call.assets) :
                    is_valid_apk_asset(call.assets[i], call.include_keywords,
                                       call.exclude_keywords)
                        => ~ArmHint(call.assets[i].name)
           /\ ~call.compliant

C9_Witness ==
    /\ call.op = "select_best_apk"
    /\ call.abi_policy = "arm_preferred"
    /\ call.include_keywords = <<>> /\ call.exclude_keywords = <<>>
    /\ Len(call.assets) = 2
    /\ call.assets[1] = Asset("app-x86_64-release.apk", 2, "url")
    /\ call.assets[2] = Asset("app-armeabi-v7a-release.apk", 1, "url")
    /\ call.result = <<call.assets[2]>>

-----------------------------------------------------------------------------
(* Properties of a run, checked under Spec *)

\* the highest version code of the cache entry the run was started with (the
\* cache file is only written by the last step of a run)
SeededHighest(logical_id) == CachedHighest(load_metadata_cache(disk), logical_id)

InRun == pc \in {"apps", "write_v1", "save_cache"}

Reported(severity, message, logical_id) ==
    \E i \in 1..Len(reporter.entries) :
        reporter.entries[i] =
            [severity |-> severity, message |-> message, logical_id |-> logical_id]

\* C2: in a run whose session for the application is seeded from a cache entry
\* with highest version code v2, no version with a version code v1 < v2 is among
\* the versions accepted for the application, neither while the releases are
\* processed nor in the package object process_app returns.
C2_NoVersionBelowCachedHighest ==
    (InRun /\ app.state \in {"releases", "returned"}
           /\ SeededHighest(app.config.logical_id) # <<>>)
        => /\ \A i \in 1..Len(app.valid_versions) :
                VersionCodeOf(app.valid_versions[i])
                    >= SeededHighest(app.config.logical_id)[1]
           /\ app.result # <<>> =>
                \A i \in 1..Len(app.result[1].versions) :
                    VersionCodeOf(app.result[1].versions[i][2])
                        >= SeededHighest(app.config.logical_id)[1]

C2_Witness ==
    /\ InRun /\ app.state = "returned"
    /\ SeededHighest("A") = <<7>>
    /\ app.releases = <<Release(<<ArmArtifact(5)>>), Release(<<ArmArtifact(9)>>)>>
    /\ Len(app.valid_versions) = 1
    /\ VersionCodeOf(app.valid_versions[1]) = 9
    /\ Reported("warning", "Version code is less than cached highest", "A")

\* the versions of the PackageRecord of package_id in the published index-v2.json,
\* <<>> when the file or the record does not exist
RecordVersions(files, package_id) ==
    IF files.index # <<>> /\ package_id \in Keys(files.index[1].packages)
    THEN <<files.index[1].packages[Lookup(files.index[1].packages, package_id)][2].versions>>
    ELSE <<>>

LegacyRecords(files, package_id) ==
    IF files.index_v1 = <<>> THEN {}
    ELSE {files.index_v1[1].packages[i] : i \in
            {j \in 1..Len(files.index_v1[1].packages) :
                files.index_v1[1].packages[j].packageName = package_id}}

\* C8: a run with the one application A, an empty allow-list, retention 2 and
\* two releases with 64-bit-ARM-only artifacts of version codes 5 and 7 retains
\* both versions, publishes a PackageRecord of 2 entries for A and a legacy
\* record of version code 7.
C8_TwoReleasesPublished ==
    (/\ pc = "save_cache" /\ app.state = "returned"
     /\ app.config.logical_id = "A"
     /\ app.config.allowed_ids = <<>>
     /\ app.config.retain_versions = <<2>>
     /\ app.releases = <<Release(<<ArmArtifact(7)>>), Release(<<ArmArtifact(5)>>)>>)
        => /\ Len(app.valid_versions) = 2
           /\ RecordVersions(disk, "com.example.app") # <<>>
           /\ Len(RecordVersions(disk, "com.example.app")[1]) = 2
           /\ \E r \in LegacyRecords(disk, "com.example.app") : r.versionCode = 7

\* C10: when the cache entry of the application has highest version code 10 and
\* the only release of the run has version code 9, the release is rejected with
\* the monotonicity error and the index the run publishes holds the versions of
\* the application's PackageRecord of the index published before.
C10_PreviousRecordKept ==
    [][(/\ pc = "apps" /\ pc' = "write_v1"
        /\ app.state = "returned" /\ app.config.logical_id = "A"
        /\ SeededHighest("A") = <<10>>
        /\ app.releases = <<Release(<<ArmArtifact(9)>>)>>)
        => /\ Reported("warning", "Version code is less than cached highest", "A")
           /\ RecordVersions(disk, "com.example.app") # <<>>
           /\ RecordVersions(disk', "com.example.app")
                = RecordVersions(disk, "com.example.app")]_vars

\* C11: an application is marked failed only if all of its releases fail: when
\* at least one release of the application was accepted in the run, process_app
\* reports no error for the application and returns its package object.
C11_FailedOnlyIfAllReleasesFail ==
    (InRun /\ app.state = "returned" /\ app.valid_versions # <<>>)
        => /\ app.result # <<>>
           /\ app.config.logical_id \notin DOMAIN reporter.failed_apps

\* C12: when two applications with distinct logical ids both come to register
\* the same package id in one run, the global validator holds exactly one
\* collision pair, naming the first claimant and the second application, the
\* second application gets no package object, and at most one of the two has
\* its package object in packages_data and in the index that is written.
C12_OneCollisionPair ==
    (/\ InRun /\ Len(returned) = 2
     /\ returned[1].logical_id # returned[2].logical_id
     /\ returned[1].package_id # None
     /\ returned[2].package_id = returned[1].package_id)
        => /\ global_validator.duplicate_pairs =
                <<<<returned[1].package_id, returned[1].logical_id, returned[2].logical_id>>>>
           /\ returned[1].result # <<>>
           /\ returned[2].result = <<>>
           /\ \A i \in 1..Len(packages_data) : packages_data[i][2] = returned[1].result[1]
           /\ Len(packages_data) <= 1
           /\ disk.index # <<>> /\ pc # "apps" => Len(disk.index[1].packages) <= 1

C12_Witness ==
    /\ pc = "write_v1" /\ Len(returned) = 2
    /\ returned[1].logical_id = "A" /\ returned[2].logical_id = "B"
    /\ returned[1].package_id = "com.example.app"
    /\ returned[2].package_id = "com.example.app"
    /\ global_validator.duplicate_pairs = <<<<"com.example.app", "A", "B">>>>
    /\ Reported("error", "Duplicate package ID between", None)

-----------------------------------------------------------------------------
(* Properties of AppValidator.validate_version, checked under SpecUnit *)

\* the outcomes of the five rules on the call's metadata and the session before
\* the call, in the order architecture, allow-list, signing continuity,
\* monotonicity, duplicate
RuleResults ==
    <<validate_abi(call.metadata, call.self.abi_policy),
      validate_package_id(call.metadata, call.self.allowed_ids),
      validate_signature(call.metadata, call.self.cached_cert,
                         call.self.allow_signature_change),
      validate_version_code(call.metadata.version_code, call.self.cached_highest_version),
      validate_duplicate_version_code(call.metadata.version_code,
                                      call.self.seen_version_codes)>>

FailedRules == {i \in 1..5 : ~RuleResults[i].is_valid}

FirstFailed == CHOOSE i \in FailedRules : \A j \in FailedRules : i <= j

\* C13: validate_version returns the outcome of the first of the five rules, in
\* the order architecture, allow-list, signing continuity, monotonicity,
\* duplicate, that is Invalid, and records that one error only and no warning of
\* the signing rule when an earlier rule or the signing rule itself failed; it
\* returns Valid exactly when all five rules pass.
C13_FirstInvalidRuleWins ==
    call.op = "validate_version"
        => /\ call.result.is_valid <=> FailedRules = {}
           /\ FailedRules = {} => call.result = Valid
           /\ FailedRules # {} =>
                /\ call.result = RuleResults[FirstFailed]
                /\ call.after.validation_errors =
                        Append(call.self.validation_errors,
                               RuleResults[FirstFailed].error_message)
                /\ FirstFailed <= 3 =>
                        call.after.validation_warnings =
                            WithWarning(call.self, RuleResults[1]).validation_warnings

C13_Witness ==
    /\ call.op = "validate_version"
    /\ FailedRules = {2, 3, 4, 5}
    /\ call.result = Invalid("Package ID not in allowed list")

\* the session without its two diagnostic lists
WithoutDiagnostics(self) ==
    [self EXCEPT !.validation_errors = <<>>, !.validation_warnings = <<>>]

IsPrefix(s, t) == Len(s) <= Len(t) /\ SubSeq(t, 1, Len(s)) = s

\* C14 as stated: validate_version changes the session only on acceptance, by
\* adding the version code to the seen-set; a call that returns Invalid leaves
\* every field of the session unchanged.
C14_RejectionLeavesSessionUnchanged ==
    call.op = "validate_version"
        => call.after =
            IF call.result.is_valid
            THEN [call.self EXCEPT !.seen_version_codes = @ \cup {call.metadata.version_code}]
            ELSE call.self

\* C14, amended: apart from the two diagnostic lists validate_version changes
\* the session only on acceptance, by adding the version code to the seen-set;
\* a call that returns Invalid appends its error message to validation_errors,
\* an accepted call appends none, and both only append to validation_warnings.
C14_RejectionOnlyRecordsDiagnostics ==
    call.op = "validate_version"
        => /\ WithoutDiagnostics(call.after) =
                IF call.result.is_valid
                THEN WithoutDiagnostics([call.self EXCEPT !.seen_version_codes =
                                            @ \cup {call.metadata.version_code}])
                ELSE WithoutDiagnostics(call.self)
           /\ call.after.validation_errors =
                IF call.result.is_valid THEN call.self.validation_errors
                ELSE Append(call.self.validation_errors, call.result.error_message)
           /\ IsPrefix(call.self.validation_warnings, call.after.validation_warnings)

C14_Witness ==
    /\ call.op = "validate_version"
    /\ call.self.seen_version_codes = {7}
    /\ call.metadata.version_code = 5
    /\ call.self.cached_highest_version = <<7>>
    /\ call.result = Invalid("Version code is less than cached highest")
    /\ call.after.seen_version_codes = {7}
    /\ call.after.validation_errors = <<"Version code is less than cached highest">>
    /\ call.after.validation_warnings # <<>>

\* the applications of the finished run for which process_app returned None
FailedApps == {i \in 1..Len(returned) : returned[i].result = <<>>}

\* C15: the exit code of a run that went through all its applications tells
\* three outcomes apart: hard failure (1) when every application failed, partial
\* success (2) when the index was produced and some but not all applications
\* failed, success (0) when all applications succeeded.
C15_ExitOutcomes ==
    (/\ pc = "start" /\ exit_code # <<>> /\ returned # <<>>
     /\ Reported("notice", "Successfully wrote index-v1.json", None))
        => exit_code = IF FailedApps = 1..Len(returned) THEN <<1>>
                       ELSE IF FailedApps # {} THEN <<2>>
                       ELSE <<0>>

\* C16: no index is persisted unless the fields name, description, address and
\* timestamp of its repository descriptor are non-empty.
C16_PersistedIndexHasDescriptor ==
    disk.index # <<>>
        => /\ disk.index[1].repo.name # ""
           /\ disk.index[1].repo.description # ""
           /\ disk.index[1].repo.address # ""
           /\ disk.index[1].repo.timestamp # ""

\* the version code and the signing fingerprint of the version object are those
\* of the cache entry
RecordedIn(entry, version_obj) ==
    /\ entry.highest_versionCode = <<VersionCodeOf(version_obj)>>
    /\ "sha256" \in DOMAIN version_obj.manifest.signer
            => entry.signing_cert = version_obj.manifest.signer.sha256[1]

\* C17: process_app leaves the cache entry of the application as the run found
\* it when no version is accepted, and also when every accepted version has a
\* version code and fingerprint already recorded in the entry.
C17_EntryUpdatedOnlyOnChange ==
    (InRun /\ app.state = "returned" /\ app.config.logical_id # "")
        => LET logical_id == app.config.logical_id
               before == CachedApp(load_metadata_cache(disk), logical_id)
           IN  (\/ app.valid_versions = <<>>
                \/ /\ before # <<>>
                   /\ \A i \in 1..Len(app.valid_versions) :
                        RecordedIn(before, app.valid_versions[i]))
                    => CachedApp(cache, logical_id) = before

\* C18: when process_app returns for an application without an accepted version
\* (a failed fetch, no release, or every release skipped), it returns None,
\* packages_data is left as it was, an error is reported for the application, and
\* the run goes on with the applications configured after it: the indexes are
\* written only when none is left.
C18_FailedAppIsIsolated ==
    /\ [](pc \in {"write_v1", "save_cache"} => todo = <<>>)
    /\ [][(/\ pc = "apps" /\ Len(returned') = Len(returned) + 1
           /\ app'.config.logical_id # ""
           /\ app'.valid_versions = <<>>)
            => /\ returned'[Len(returned')] = ReturnValue(app'.config.logical_id, None, <<>>)
               /\ packages_data' = packages_data
               /\ app'.config.logical_id \in DOMAIN reporter'.failed_apps
               /\ reporter'.entries[Len(reporter'.entries)].severity = "error"
               /\ reporter'.entries[Len(reporter'.entries)].logical_id = app'.config.logical_id
               /\ pc' = "apps" /\ exit_code' = <<>>
               /\ todo' = IF app.state = "releases" THEN todo ELSE Tail(todo)]_vars

C18_Witness ==
    /\ pc = "write_v1" /\ Len(returned) = 2
    /\ returned[1] = ReturnValue("A", None, <<>>)
    /\ reporter.failed_apps = [A |-> <<"No valid versions found after validation">>]
    /\ returned[2].logical_id = "B"
    /\ returned[2].result # <<>>

\* C19: a configuration error is fatal to the whole run: after an application
\* entry without logical id or upstream repository, or with an empty application
\* list, no application is processed and no index is written in the run.
C19_ConfigurationErrorIsFatal ==
    [][(\/ Reported("error", "Missing logical_id or github for app config", "unknown")
        \/ Reported("error", "No apps defined in apps.yaml", None))
        => /\ disk'.index = disk.index
           /\ disk'.index_v1 = disk.index_v1
           /\ pc = "apps" => app'.state # "releases"
           /\ pc' = "start" => exit_code' = <<1>>]_vars

\* C20: every application for which process_app returned a package object has
\* that object in the packages mapping of the index the run writes, under the
\* package id it registered with the global validator.
C20_AssembledPackageIsPublished ==
    (pc \in {"write_v1", "save_cache"})
        => \A i \in 1..Len(returned) :
              returned[i].result # <<>>
                => /\ global_validator.package_id_map[returned[i].package_id]
                        = returned[i].logical_id
                   /\ returned[i].package_id \in Keys(disk.index[1].packages)
                   /\ disk.index[1].packages[Lookup(disk.index[1].packages,
                                                    returned[i].package_id)][2]
                        = returned[i].result[1]

-----------------------------------------------------------------------------
(* Properties of select_best_apk, checked under SpecUnit *)

\* the architecture rank of the claim: 64-bit ARM > 32-bit ARM > universal > x86
\* under arm_preferred; 64-bit ARM > 32-bit ARM > the rest under arm64_only
ArchitectureRank(name, abi_policy) ==
    LET abis == extract_abi_from_filename(name)
    IN  IF abi_policy = "arm64_only"
        THEN IF InList("arm64-v8a", abis) THEN 2
             ELSE IF InList("armeabi-v7a", abis) THEN 1 ELSE 0
        ELSE IF InList("arm64-v8a", abis) THEN 3
             ELSE IF InList("armeabi-v7a", abis) THEN 2
             ELSE IF abis = <<>> THEN 1 ELSE 0

\* C21: select_best_apk returns a candidate that is maximal under
\* (architecture rank, size) among the assets that pass the filter, with the
\* strict rank 64-bit ARM > 32-bit ARM > universal > x86 under arm_preferred.
C21_SelectsMaximalByRank ==
    (/\ call.op = "select_best_apk"
     /\ call.abi_policy \in {"arm_preferred", "arm64_only"}
     /\ call.result # <<>>)
        => \A i \in 1..Len(call.assets) :
              is_valid_apk_asset(call.assets[i], call.include_keywords, call.exclude_keywords)
                => ~TupleLess(<<ArchitectureRank(call.result[1].name, call.abi_policy),
                                call.result[1].size>>,
                              <<ArchitectureRank(call.assets[i].name, call.abi_policy),
                                call.assets[i].size>>)

-----------------------------------------------------------------------------
(* Properties of the validation session over the releases of a run, checked under Spec *)

\* the version codes of the versions accepted so far for the application
AcceptedVersionCodes ==
    {VersionCodeOf(app.valid_versions[i]) : i \in 1..Len(app.valid_versions)}

\* C22: while the releases of an application are processed, the version codes of
\* the accepted versions are pairwise distinct and the seen-set of the
\* application's session is exactly the set of these version codes, so an
\* artifact with a version code accepted earlier in the run is rejected.
C22_SeenSetIsAcceptedVersionCodes ==
    (InRun /\ app.state = "releases")
        => /\ app.app_validator.seen_version_codes = AcceptedVersionCodes
           /\ Cardinality(AcceptedVersionCodes) = Len(app.valid_versions)

C22_Witness ==
    /\ InRun /\ app.state = "releases"
    /\ app.releases = <<Release(<<ArmArtifact(7)>>), Release(<<ArmArtifact(7)>>)>>
    /\ Len(app.valid_versions) = 1
    /\ app.app_validator.seen_version_codes = {7}
    /\ Reported("warning", "Duplicate version code", "A")

-----------------------------------------------------------------------------
(* Progress of a run, checked under SpecLive *)

RECURSIVE LogicalIdsOf(_)
LogicalIdsOf(entries) ==
    IF entries = <<>> THEN <<>>
    ELSE <<entries[1].logical_id>> \o LogicalIdsOf(Tail(entries))

\* the applications of the run in configuration order: those process_app has
\* returned for, the one being processed, those still to do
ConfiguredApps ==
    LogicalIdsOf(returned)
        \o (IF app.state = "releases" THEN <<app.config.logical_id>> ELSE <<>>)
        \o LogicalIdsOf(todo)

NoReleasesReported ==
    /\ reporter.entries # <<>>
    /\ reporter.entries[Len(reporter.entries)].severity = "error"
    /\ reporter.entries[Len(reporter.entries)].message
            \in {"Failed to fetch releases", "No valid releases found"}

\* C23: in every run each configured application is processed exactly once in
\* configuration order and process_app returns once for it, with None (Failed)
\* or a package object (PackageAssembled); an application without releases
\* fails without an artifact being selected or validated; the indexes are
\* written only when every application has returned; and every started run
\* eventually returns.
C23_EveryAppOnceAndRunTerminates ==
    /\ [][(pc = "apps" /\ pc' # "start") => ConfiguredApps' = ConfiguredApps]_vars
    /\ [](pc \in {"write_v1", "save_cache"} => todo = <<>> /\ app.state # "releases")
    /\ []((pc = "apps" /\ app.state = "returned" /\ NoReleasesReported)
            => /\ returned[Len(returned)].result = <<>>
               /\ app.releases = <<>>
               /\ app.app_validator.seen_version_codes = {}
               /\ app.app_validator.validation_errors = <<>>
               /\ app.app_validator.validation_warnings = <<>>)
    /\ InRun ~> (pc = "start" /\ exit_code # <<>>)

C23_Witness ==
    /\ pc = "start" /\ exit_code = <<2>>
    /\ Len(returned) = 2
    /\ returned[1] = ReturnValue("A", None, <<>>)
    /\ returned[2].logical_id = "B" /\ returned[2].result # <<>>
    /\ Reported("error", "No valid releases found", "A")
    /\ Reported("notice", "Successfully processed", "B")

-----------------------------------------------------------------------------
(* C24 *)

\* the entry the run found for the application in the cache file
SeededEntry(logical_id) ==
    IF logical_id \in DOMAIN load_metadata_cache(disk).apps
    THEN <<load_metadata_cache(disk).apps[logical_id]>>
    ELSE <<>>

\* C24: a step process_app takes for one application leaves the cache entries
\* of every other logical id as they were, and the validation session created
\* for an application is empty and seeded from the entry the cache file holds
\* for that application alone, whatever the applications processed before it in
\* the run did.
C24_OtherApplicationsUntouched ==
    /\ [][(pc = "apps" /\ pc' = "apps") =>
            \A k \in (DOMAIN cache.apps \cup DOMAIN cache'.apps) \ {app'.config.logical_id} :
                /\ k \in DOMAIN cache.apps /\ k \in DOMAIN cache'.apps
                /\ cache'.apps[k] = cache.apps[k]]_vars
    /\ [][(pc = "apps" /\ app.state # "releases" /\ app'.state = "releases") =>
            LET seeded == SeededEntry(app'.config.logical_id)
                session == app'.app_validator
            IN  /\ session.seen_version_codes = {}
                /\ session.validation_errors = <<>>
                /\ session.validation_warnings = <<>>
                /\ session.cached_cert =
                        IF seeded = <<>> THEN None ELSE seeded[1].signing_cert
                /\ session.cached_highest_version =
                        IF seeded = <<>> THEN <<>> ELSE seeded[1].highest_versionCode]_vars

\* B is being processed with the session seeded from its own entry, after A
\* was assembled in the same run and got a cache entry the file does not hold
C24_Witness ==
    /\ pc = "apps" /\ app.state = "releases" /\ app.config.logical_id = "B"
    /\ Len(returned) = 1 /\ returned[1].logical_id = "A" /\ returned[1].result # <<>>
    /\ "A" \in DOMAIN cache.apps /\ SeededEntry("A") # <<cache.apps["A"]>>
    /\ SeededEntry("B") # <<>>
    /\ app.app_validator.cached_highest_version = SeededEntry("B")[1].highest_versionCode
    /\ SeededEntry("B")[1].highest_versionCode # <<>>

-----------------------------------------------------------------------------
(* validator.py: register_package_id called from two threads. The method    *)
(* takes no lock: between its statements another caller may run.            *)

\* the applications that call register_package_id, one thread each
RaceApps == {"A", "B"}

Idle == [at |-> "idle"]

\* a thread calls register_package_id(package_id, logical_id)
RegisterEnter(logical_id) ==
    /\ call.threads[logical_id].at = "idle"
    /\ Len(history) + Cardinality({t \in RaceApps : call.threads[t].at # "idle"})
            < MaxConcurrentCalls
    /\ \E package_id \in PackageIds :
          call' = [call EXCEPT !.threads[logical_id] =
                        [at |-> "check", package_id |-> package_id]]
    /\ UNCHANGED <<history, global_validator, runVars>>

\* lines 343-347: result = validate_duplicate_package_id(...)
RegisterCheck(logical_id) ==
    /\ call.threads[logical_id].at = "check"
    /\ call' = [call EXCEPT !.threads[logical_id] =
            [at |-> "checked",
             package_id |-> @.package_id,
             result |-> validate_duplicate_package_id(@.package_id,
                            global_validator.package_id_map, logical_id)]]
    /\ UNCHANGED <<history, global_validator, runVars>>

\* lines 349-351: the collision pair is recorded and the result returned
RegisterRecord(logical_id) ==
    /\ call.threads[logical_id].at = "checked"
    /\ ~call.threads[logical_id].result.is_valid
    /\ global_validator' = [global_validator EXCEPT !.duplicate_pairs =
            Append(@, <<call.threads[logical_id].package_id,
                        global_validator.package_id_map[call.threads[logical_id].package_id],
                        logical_id>>)]
    /\ history' = Append(history,
            [package_id |-> call.threads[logical_id].package_id,
             logical_id |-> logical_id,
             result |-> call.threads[logical_id].result])
    /\ call' = [call EXCEPT !.threads[logical_id] = Idle]
    /\ UNCHANGED runVars

\* lines 353-354: the package id is claimed and Valid returned
RegisterClaim(logical_id) ==
    /\ call.threads[logical_id].at = "checked"
    /\ call.threads[logical_id].result.is_valid
    /\ global_validator' = [global_validator EXCEPT !.package_id_map =
            Put(@, call.threads[logical_id].package_id, logical_id)]
    /\ history' = Append(history,
            [package_id |-> call.threads[logical_id].package_id,
             logical_id |-> logical_id,
             result |-> Valid])
    /\ call' = [call EXCEPT !.threads[logical_id] = Idle]
    /\ UNCHANGED runVars

InitRace ==
    /\ call = [op |-> "register_package_id", threads |-> [t \in RaceApps |-> Idle]]
    /\ history = <<>>
    /\ global_validator = GlobalValidator
    /\ NoRun

NextRace ==
    \E logical_id \in RaceApps :
        \/ RegisterEnter(logical_id)
        \/ RegisterCheck(logical_id)
        \/ RegisterRecord(logical_id)
        \/ RegisterClaim(logical_id)

SpecRace == InitRace /\ [][NextRace]_vars

-----------------------------------------------------------------------------
(* C25 *)

ReturnedValid(package_id) ==
    {i \in 1..Len(history) : history[i].package_id = package_id /\ history[i].result.is_valid}

ReturnedInvalid ==
    {i \in 1..Len(history) : ~history[i].result.is_valid}

\* C25: when applications with different logical ids call register_package_id
\* for the same package id from concurrent threads, the calls that returned
\* Valid for one package id all come from one logical id, every other call
\* returned Invalid, and one collision pair is recorded per Invalid call.
C25_RegisterCallsAreSerialized ==
    /\ \A package_id \in PackageIds : \A i, j \in ReturnedValid(package_id) :
            history[i].logical_id = history[j].logical_id
    /\ Len(global_validator.duplicate_pairs) = Cardinality(ReturnedInvalid)

-----------------------------------------------------------------------------
(* C26 *)

\* the fingerprint of the entry the run found for the application, None when
\* there is no entry
SeededCert(logical_id) ==
    IF SeededEntry(logical_id) = <<>> THEN None ELSE SeededEntry(logical_id)[1].signing_cert

\* the application is processed without the permission to change its certificate
Pinned(frame, logical_id) ==
    /\ frame.state \in {"releases", "returned"}
    /\ frame.config.logical_id = logical_id
    /\ ~frame.config.allow_signature_change

Unsigned(version_obj) == "sha256" \notin DOMAIN version_obj.manifest.signer

\* C26: while an application whose cache entry holds the fingerprint C is
\* processed without the permission to change its signature, every accepted
\* version carries C or no fingerprint, a version without fingerprint is
\* accepted with the "not extracted" warning, and the entry keeps C in the
\* cache of the run; the cache file keeps C through every run in which the
\* application is not processed with the permission.
C26_FingerprintStaysC ==
    /\ [](\A id \in LogicalIds :
            (InRun /\ Pinned(app, id) /\ SeededCert(id) # None) =>
                /\ \A i \in 1..Len(app.valid_versions) :
                      \/ Unsigned(app.valid_versions[i])
                      \/ app.valid_versions[i].manifest.signer.sha256[1] = SeededCert(id)
                /\ (\E i \in 1..Len(app.valid_versions) : Unsigned(app.valid_versions[i])) =>
                      \E j \in 1..Len(app.app_validator.validation_warnings) :
                          app.app_validator.validation_warnings[j] =
                              "Signing certificate not extracted (requires androguard/apksigner)"
                /\ id \in DOMAIN cache.apps
                /\ cache.apps[id].signing_cert = SeededCert(id))
    /\ [][\A id \in LogicalIds :
            (/\ SeededCert(id) # None
             /\ (app.state # "none" /\ app.config.logical_id = id) => Pinned(app, id)) =>
                SeededCert(id)' = SeededCert(id)]_vars

\* the second run found the fingerprint certA, rejected the artifact signed
\* with certB, accepted the one without fingerprint, and saved certA again
C26_Witness ==
    /\ pc = "start" /\ runs = 2 /\ exit_code = <<0>>
    /\ Pinned(app, "A")
    /\ SeededCert("A") = "certA"
    /\ disk.cache[1].apps["A"].highest_versionCode = <<10>>
    /\ Reported("warning", "Signing certificate changed and allow_signature_change=false", "A")
    /\ \E i \in 1..Len(app.valid_versions) : Unsigned(app.valid_versions[i])

-----------------------------------------------------------------------------
(* C27 *)

\* a >= b for highest_versionCode values, where <<>> (None: no version was
\* ever recorded) is below every version code
AtLeast(a, b) == b = <<>> \/ (a # <<>> /\ a[1] >= b[1])

\* C27: the highest_versionCode of an application's entry, in the cache of a
\* run, is never below the value the run read from the cache file, and the value
\* in the cache file never decreases from one step to the next, over any
\* sequence of runs.
C27_HighestVersionCodeNeverDecreases ==
    /\ [](\A id \in LogicalIds :
            InRun => AtLeast(CachedHighest(cache, id), SeededHighest(id)))
    /\ [][\A id \in LogicalIds : AtLeast(SeededHighest(id)', SeededHighest(id))]_vars

\* a second run read 7 from the cache file, refused version code 5, accepted 9
\* and has rewritten the entry with 9
C27_Witness ==
    /\ pc = "apps" /\ runs = 2 /\ app.state = "returned" /\ app.result # <<>>
    /\ SeededHighest("A") = <<7>>
    /\ CachedHighest(cache, "A") = <<9>>
    /\ \E i \in 1..Len(app.releases) : app.releases[i] = Release(<<ArmArtifact(5)>>)

-----------------------------------------------------------------------------
(* C28 *)

\* C28: whatever the retain count, also 0 or below, a package object
\* process_app returns has at least one version; an application left without
\* a retained version gets None.
C28_AssembledPackageHasAVersion ==
    \A i \in 1..Len(returned) :
        returned[i].result # <<>> => returned[i].result[1].versions # <<>>

-----------------------------------------------------------------------------
(* C29 *)

MaxOf(S) == CHOOSE x \in S : \A y \in S : y <= x

\* the version codes of the versions of a package object
VersionCodesIn(package_obj) ==
    {VersionCodeOf(package_obj.versions[i][2]) : i \in 1..Len(package_obj.versions)}

\* C29: when process_app returns a package object for an application with a
\* retain count of at least 1, the highest version code among the versions of
\* the object is the highest version code accepted in the run, and that is the
\* highest_versionCode of the application's cache entry.
C29_MaxVersionIsCachedHighest ==
    (/\ pc = "apps" /\ app.state = "returned" /\ app.result # <<>>
     /\ RetainCount(app) >= 1) =>
        LET accepted == app.app_validator.seen_version_codes
        IN  /\ accepted # {}
            /\ VersionCodesIn(app.result[1]) # {}
            /\ MaxOf(VersionCodesIn(app.result[1])) = MaxOf(accepted)
            /\ app.config.logical_id \in DOMAIN cache.apps
            /\ cache.apps[app.config.logical_id].highest_versionCode = <<MaxOf(accepted)>>

-----------------------------------------------------------------------------
(* C30 *)

\* C30: the cache file changes only in the step that saves the cache, which
\* main takes once index-v2.json and index-v1.json hold the indexes built from
\* the packages of this run, and that step ends the run with exit code 0 or 2;
\* a step that ends a run with exit code 1 leaves the cache file as it was.
C30_CacheSavedAfterBothIndexes ==
    /\ [][disk'.cache # disk.cache =>
            /\ pc = "save_cache"
            /\ disk'.cache = <<cache>>
            /\ disk.index = <<build_index(repo_config, packages_data)>>
            /\ disk.index_v1 = <<[packages |-> build_index_v1(packages_data)]>>
            /\ disk'.index = disk.index /\ disk'.index_v1 = disk.index_v1
            /\ exit_code' \in {<<0>>, <<2>>}]_vars
    /\ [][exit_code' = <<1>> => disk'.cache = disk.cache]_vars

\* a second run assembled A, gave its cache entry a new highest version code,
\* wrote index-v2.json, failed on index-v1.json and left the cache file as the
\* first run saved it
C30_Witness ==
    /\ pc = "start" /\ runs = 2 /\ exit_code = <<1>>
    /\ Reported("error", "Failed to write index-v1.json", None)
    /\ disk.cache # <<>> /\ SeededHighest("A") = <<7>>
    /\ CachedHighest(cache, "A") = <<9>>

====
